---- MODULE Spec2Model ----
(***************************************************************************)
(* A model of the jpegxr crate's adaptation layer (src/src/lib.rs): the    *)
(* status translator `call`, the PixelFormat <-> GUID registry, the        *)
(* InputStream callback adapter and the ImageDecode handle's lifecycle.    *)
(* The jxrlib codec is the environment: every foreign entry point returns  *)
(* a status (and out-values) chosen nondeterministically, and may run      *)
(* stream callbacks while Initialize or Copy is in progress.               *)
(***************************************************************************)
EXTENDS Integers, Sequences, FiniteSets, TLC

(***************************************************************************)
(* Bounds of the model.                                                    *)
(***************************************************************************)
\* with_reader calls in one run
MaxCalls == 2
\* longest byte source, in bytes
MaxLen == 2
\* status codes fed to `call` range over -MaxCode .. MaxCode (plus the extremes)
MaxCode == 120

(***************************************************************************)
(* Wide unsigned integers.  usize, u32 and u64 values are little-endian    *)
(* tuples of four 16-bit limbs, so that 2^32 and 2^63 are representable.   *)
(***************************************************************************)
Base == 256 * 256
LimbMax == Base - 1

W(a, b, c, d) == <<a, b, c, d>>
FromNat(n) == <<n, 0, 0, 0>>
IsSmall(x) == x[2] = 0 /\ x[3] = 0 /\ x[4] = 0
ToNat(x) == x[1]

\* u32::MAX, u32::MAX + 1, i64::MAX, i64::MAX + 1 and u64::MAX
U32Max == W(LimbMax, LimbMax, 0, 0)
U32MaxPlus1 == W(0, 0, 1, 0)
I64Max == W(LimbMax, LimbMax, LimbMax, 32767)
I64MaxPlus1 == W(0, 0, 0, 32768)
U64Max == W(LimbMax, LimbMax, LimbMax, LimbMax)

\* x <= y on wide integers, most significant limb first
WLe(x, y) ==
    \/ x[4] < y[4]
    \/ x[4] = y[4] /\ x[3] < y[3]
    \/ x[4] = y[4] /\ x[3] = y[3] /\ x[2] < y[2]
    \/ x[4] = y[4] /\ x[3] = y[3] /\ x[2] = y[2] /\ x[1] <= y[1]

\* the target's pointer width in limbs: 2 (wasm32) or 4 (64-bit hosts)
UsizeWidths == {2, 4}
FitsUsize(x, w) == w = 4 \/ (x[3] = 0 /\ x[4] = 0)
FitsU32(x) == x[3] = 0 /\ x[4] = 0

(***************************************************************************)
(* Results.  A Result<T> is a record: ok, the error kind when ~ok, and the *)
(* value split by type (pf: a PixelFormat name, nums: a tuple of numbers). *)
(***************************************************************************)
Ok == [ok |-> TRUE, err |-> "", pf |-> "", nums |-> <<>>]
OkPf(p) == [ok |-> TRUE, err |-> "", pf |-> p, nums |-> <<>>]
OkNums(t) == [ok |-> TRUE, err |-> "", pf |-> "", nums |-> t]
Err(e) == [ok |-> FALSE, err |-> e, pf |-> "", nums |-> <<>>]

(***************************************************************************)
(* The status translator.                                                  *)
(***************************************************************************)
WMP_errSuccess == 0
WMP_errFail == -1
WMP_errNotYetImplemented == -2
WMP_errAbstractMethod == -3
WMP_errOutOfMemory == -101
WMP_errFileIO == -102
WMP_errBufferOverflow == -103
WMP_errInvalidParameter == -104
WMP_errInvalidArgument == -105
WMP_errUnsupportedFormat == -106
WMP_errIncorrectCodecVersion == -107
WMP_errIndexNotFound == -108
WMP_errOutOfSequence == -109
WMP_errNotInitialized == -110
WMP_errMustBeMultipleOf16LinesUntilLastCall == -111
WMP_errPlanarAlphaBandedEncRequiresTempFile == -112
WMP_errAlphaModeCannotBeTranscoded == -113
WMP_errIncorrectCodecSubVersion == -114

\* fn call(err: ERR) -> Result<()>, with a non-exhaustive arm list; the
\* match falls through its arms in source order to the `_` arm
callMissingArm(err) ==
    IF err >= 0 THEN Ok
    ELSE CASE err = WMP_errFail -> Err("Fail")
           [] err = WMP_errNotYetImplemented -> Err("NotYetImplemented")
           [] err = WMP_errAbstractMethod -> Err("AbstractMethod")
           [] err = WMP_errOutOfMemory -> Err("OutOfMemory")
           [] err = WMP_errFileIO -> Err("FileIO")
           [] err = WMP_errBufferOverflow -> Err("BufferOverflow")
           [] err = WMP_errInvalidParameter -> Err("InvalidParameter")
           [] err = WMP_errInvalidArgument -> Err("InvalidArgument")
           [] err = WMP_errUnsupportedFormat -> Err("UnsupportedFormat")
           [] err = WMP_errIncorrectCodecVersion -> Err("IncorrectCodecVersion")
           [] err = WMP_errIndexNotFound -> Err("IndexNotFound")
           [] err = WMP_errOutOfSequence -> Err("OutOfSequence")
           [] err = WMP_errNotInitialized -> Err("NotInitialized")
           [] err = WMP_errMustBeMultipleOf16LinesUntilLastCall ->
                  Err("MustBeMultipleOf16LinesUntilLastCall")
           [] err = WMP_errPlanarAlphaBandedEncRequiresTempFile ->
                  Err("PlanarAlphaBandedEncRequiresTempFile")
           [] err = WMP_errAlphaModeCannotBeTranscoded ->
                  Err("AlphaModeCannotBeTranscoded")
           [] OTHER -> Err("UnknownError")

\* fn call(err: ERR) -> Result<()>
call(err) ==
    IF err >= 0 THEN Ok
    ELSE CASE err = WMP_errFail -> Err("Fail")
           [] err = WMP_errNotYetImplemented -> Err("NotYetImplemented")
           [] err = WMP_errAbstractMethod -> Err("AbstractMethod")
           [] err = WMP_errOutOfMemory -> Err("OutOfMemory")
           [] err = WMP_errFileIO -> Err("FileIO")
           [] err = WMP_errBufferOverflow -> Err("BufferOverflow")
           [] err = WMP_errInvalidParameter -> Err("InvalidParameter")
           [] err = WMP_errInvalidArgument -> Err("InvalidArgument")
           [] err = WMP_errUnsupportedFormat -> Err("UnsupportedFormat")
           [] err = WMP_errIncorrectCodecVersion -> Err("IncorrectCodecVersion")
           [] err = WMP_errIndexNotFound -> Err("IndexNotFound")
           [] err = WMP_errOutOfSequence -> Err("OutOfSequence")
           [] err = WMP_errNotInitialized -> Err("NotInitialized")
           [] err = WMP_errMustBeMultipleOf16LinesUntilLastCall ->
                  Err("MustBeMultipleOf16LinesUntilLastCall")
           [] err = WMP_errPlanarAlphaBandedEncRequiresTempFile ->
                  Err("PlanarAlphaBandedEncRequiresTempFile")
           [] err = WMP_errAlphaModeCannotBeTranscoded ->
                  Err("AlphaModeCannotBeTranscoded")
           [] err = WMP_errIncorrectCodecSubVersion -> Err("IncorrectCodecSubVersion")
           [] OTHER -> Err("UnknownError")

(***************************************************************************)
(* The format registry.  A GUID is named by the jxrlib constant that holds *)
(* it; distinct constants hold distinct 128-bit values.                    *)
(***************************************************************************)
\* enum PixelFormat, in declaration order
PixelFormats == <<
    "PixelFormatDontCare", "PixelFormatBlackWhite", "PixelFormat8bppGray",
    "PixelFormat16bppRGB555", "PixelFormat16bppRGB565", "PixelFormat16bppGray",
    "PixelFormat24bppBGR", "PixelFormat24bppRGB", "PixelFormat32bppBGR",
    "PixelFormat32bppBGRA", "PixelFormat32bppPBGRA", "PixelFormat32bppGrayFloat",
    "PixelFormat32bppRGB", "PixelFormat32bppRGBA", "PixelFormat32bppPRGBA",
    "PixelFormat48bppRGBFixedPoint", "PixelFormat16bppGrayFixedPoint",
    "PixelFormat32bppRGB101010", "PixelFormat48bppRGB", "PixelFormat64bppRGBA",
    "PixelFormat64bppPRGBA", "PixelFormat96bppRGBFixedPoint",
    "PixelFormat96bppRGBFloat", "PixelFormat128bppRGBAFloat",
    "PixelFormat128bppPRGBAFloat", "PixelFormat128bppRGBFloat", "PixelFormat32bpp",
    "PixelFormat64bppRGBAFixedPoint", "PixelFormat64bppRGBFixedPoint",
    "PixelFormat128bppRGBAFixedPoint", "PixelFormat128bppRGBFixedPoint",
    "PixelFormat64bppRGBAHalf", "PixelFormat64bppRGBHalf", "PixelFormat48bppRGBHalf",
    "PixelFormat32bppRGBE", "PixelFormat16bppGrayHalf",
    "PixelFormat32bppGrayFixedPoint", "PixelFormat64bppCMYK",
    "PixelFormat24bpp3Channels", "PixelFormat32bpp4Channels",
    "PixelFormat40bpp5Channels", "PixelFormat48bpp6Channels",
    "PixelFormat56bpp7Channels", "PixelFormat64bpp8Channels",
    "PixelFormat48bpp3Channels", "PixelFormat64bpp4Channels",
    "PixelFormat80bpp5Channels", "PixelFormat96bpp6Channels",
    "PixelFormat112bpp7Channels", "PixelFormat128bpp8Channels",
    "PixelFormat40bppCMYKAlpha", "PixelFormat80bppCMYKAlpha",
    "PixelFormat32bpp3ChannelsAlpha", "PixelFormat40bpp4ChannelsAlpha",
    "PixelFormat48bpp5ChannelsAlpha", "PixelFormat56bpp6ChannelsAlpha",
    "PixelFormat64bpp7ChannelsAlpha", "PixelFormat72bpp8ChannelsAlpha",
    "PixelFormat64bpp3ChannelsAlpha", "PixelFormat80bpp4ChannelsAlpha",
    "PixelFormat96bpp5ChannelsAlpha", "PixelFormat112bpp6ChannelsAlpha",
    "PixelFormat128bpp7ChannelsAlpha", "PixelFormat144bpp8ChannelsAlpha",
    "PixelFormat12bppYCC420", "PixelFormat16bppYCC422", "PixelFormat20bppYCC422",
    "PixelFormat32bppYCC422", "PixelFormat24bppYCC444", "PixelFormat30bppYCC444",
    "PixelFormat48bppYCC444", "PixelFormat16bpp48bppYCC444FixedPoint",
    "PixelFormat20bppYCC420Alpha", "PixelFormat24bppYCC422Alpha",
    "PixelFormat30bppYCC422Alpha", "PixelFormat48bppYCC422Alpha",
    "PixelFormat32bppYCC444Alpha", "PixelFormat40bppYCC444Alpha",
    "PixelFormat64bppYCC444Alpha", "PixelFormat64bppYCC444AlphaFixedPoint",
    "PixelFormat32bppCMYKDIRECT", "PixelFormat64bppCMYKDIRECT",
    "PixelFormat40bppCMYKDIRECTAlpha", "PixelFormat80bppCMYKDIRECTAlpha" >>

\* static GUID_MAP: &[(&GUID, PixelFormat)], in table order
GUID_MAP == <<
    <<"GUID_PKPixelFormatDontCare", "PixelFormatDontCare">>,
    <<"GUID_PKPixelFormatBlackWhite", "PixelFormatBlackWhite">>,
    <<"GUID_PKPixelFormat8bppGray", "PixelFormat8bppGray">>,
    <<"GUID_PKPixelFormat16bppRGB555", "PixelFormat16bppRGB555">>,
    <<"GUID_PKPixelFormat16bppRGB565", "PixelFormat16bppRGB565">>,
    <<"GUID_PKPixelFormat16bppGray", "PixelFormat16bppGray">>,
    <<"GUID_PKPixelFormat24bppBGR", "PixelFormat24bppBGR">>,
    <<"GUID_PKPixelFormat24bppRGB", "PixelFormat24bppRGB">>,
    <<"GUID_PKPixelFormat32bppBGR", "PixelFormat32bppBGR">>,
    <<"GUID_PKPixelFormat32bppBGRA", "PixelFormat32bppBGRA">>,
    <<"GUID_PKPixelFormat32bppPBGRA", "PixelFormat32bppPBGRA">>,
    <<"GUID_PKPixelFormat32bppGrayFloat", "PixelFormat32bppGrayFloat">>,
    <<"GUID_PKPixelFormat32bppRGB", "PixelFormat32bppRGB">>,
    <<"GUID_PKPixelFormat32bppRGBA", "PixelFormat32bppRGBA">>,
    <<"GUID_PKPixelFormat32bppPRGBA", "PixelFormat32bppPRGBA">>,
    <<"GUID_PKPixelFormat48bppRGBFixedPoint", "PixelFormat48bppRGBFixedPoint">>,
    <<"GUID_PKPixelFormat16bppGrayFixedPoint", "PixelFormat16bppGrayFixedPoint">>,
    <<"GUID_PKPixelFormat32bppRGB101010", "PixelFormat32bppRGB101010">>,
    <<"GUID_PKPixelFormat48bppRGB", "PixelFormat48bppRGB">>,
    <<"GUID_PKPixelFormat64bppRGBA", "PixelFormat64bppRGBA">>,
    <<"GUID_PKPixelFormat64bppPRGBA", "PixelFormat64bppPRGBA">>,
    <<"GUID_PKPixelFormat96bppRGBFixedPoint", "PixelFormat96bppRGBFixedPoint">>,
    <<"GUID_PKPixelFormat96bppRGBFloat", "PixelFormat96bppRGBFloat">>,
    <<"GUID_PKPixelFormat128bppRGBAFloat", "PixelFormat128bppRGBAFloat">>,
    <<"GUID_PKPixelFormat128bppPRGBAFloat", "PixelFormat128bppPRGBAFloat">>,
    <<"GUID_PKPixelFormat128bppRGBFloat", "PixelFormat128bppRGBFloat">>,
    <<"GUID_PKPixelFormat32bppCMYK", "PixelFormat32bpp">>,
    <<"GUID_PKPixelFormat64bppRGBAFixedPoint", "PixelFormat64bppRGBAFixedPoint">>,
    <<"GUID_PKPixelFormat64bppRGBFixedPoint", "PixelFormat64bppRGBFixedPoint">>,
    <<"GUID_PKPixelFormat128bppRGBAFixedPoint", "PixelFormat128bppRGBAFixedPoint">>,
    <<"GUID_PKPixelFormat128bppRGBFixedPoint", "PixelFormat128bppRGBFixedPoint">>,
    <<"GUID_PKPixelFormat64bppRGBAHalf", "PixelFormat64bppRGBAHalf">>,
    <<"GUID_PKPixelFormat64bppRGBHalf", "PixelFormat64bppRGBHalf">>,
    <<"GUID_PKPixelFormat48bppRGB", "PixelFormat48bppRGBHalf">>,
    <<"GUID_PKPixelFormat32bppRGBE", "PixelFormat32bppRGBE">>,
    <<"GUID_PKPixelFormat16bppGrayHalf", "PixelFormat16bppGrayHalf">>,
    <<"GUID_PKPixelFormat32bppGrayFixedPoint", "PixelFormat32bppGrayFixedPoint">>,
    <<"GUID_PKPixelFormat64bppCMYK", "PixelFormat64bppCMYK">>,
    <<"GUID_PKPixelFormat24bpp3Channels", "PixelFormat24bpp3Channels">>,
    <<"GUID_PKPixelFormat32bpp4Channels", "PixelFormat32bpp4Channels">>,
    <<"GUID_PKPixelFormat40bpp5Channels", "PixelFormat40bpp5Channels">>,
    <<"GUID_PKPixelFormat48bpp6Channels", "PixelFormat48bpp6Channels">>,
    <<"GUID_PKPixelFormat56bpp7Channels", "PixelFormat56bpp7Channels">>,
    <<"GUID_PKPixelFormat64bpp8Channels", "PixelFormat64bpp8Channels">>,
    <<"GUID_PKPixelFormat48bpp3Channels", "PixelFormat48bpp3Channels">>,
    <<"GUID_PKPixelFormat64bpp4Channels", "PixelFormat64bpp4Channels">>,
    <<"GUID_PKPixelFormat80bpp5Channels", "PixelFormat80bpp5Channels">>,
    <<"GUID_PKPixelFormat96bpp6Channels", "PixelFormat96bpp6Channels">>,
    <<"GUID_PKPixelFormat112bpp7Channels", "PixelFormat112bpp7Channels">>,
    <<"GUID_PKPixelFormat128bpp8Channels", "PixelFormat128bpp8Channels">>,
    <<"GUID_PKPixelFormat40bppCMYKAlpha", "PixelFormat40bppCMYKAlpha">>,
    <<"GUID_PKPixelFormat80bppCMYKAlpha", "PixelFormat80bppCMYKAlpha">>,
    <<"GUID_PKPixelFormat32bpp3ChannelsAlpha", "PixelFormat32bpp3ChannelsAlpha">>,
    <<"GUID_PKPixelFormat40bpp4ChannelsAlpha", "PixelFormat40bpp4ChannelsAlpha">>,
    <<"GUID_PKPixelFormat48bpp5ChannelsAlpha", "PixelFormat48bpp5ChannelsAlpha">>,
    <<"GUID_PKPixelFormat56bpp6ChannelsAlpha", "PixelFormat56bpp6ChannelsAlpha">>,
    <<"GUID_PKPixelFormat64bpp7ChannelsAlpha", "PixelFormat64bpp7ChannelsAlpha">>,
    <<"GUID_PKPixelFormat72bpp8ChannelsAlpha", "PixelFormat72bpp8ChannelsAlpha">>,
    <<"GUID_PKPixelFormat64bpp3ChannelsAlpha", "PixelFormat64bpp3ChannelsAlpha">>,
    <<"GUID_PKPixelFormat80bpp4ChannelsAlpha", "PixelFormat80bpp4ChannelsAlpha">>,
    <<"GUID_PKPixelFormat96bpp5ChannelsAlpha", "PixelFormat96bpp5ChannelsAlpha">>,
    <<"GUID_PKPixelFormat112bpp6ChannelsAlpha", "PixelFormat112bpp6ChannelsAlpha">>,
    <<"GUID_PKPixelFormat128bpp7ChannelsAlpha", "PixelFormat128bpp7ChannelsAlpha">>,
    <<"GUID_PKPixelFormat144bpp8ChannelsAlpha", "PixelFormat144bpp8ChannelsAlpha">>,
    <<"GUID_PKPixelFormat12bppYCC420", "PixelFormat12bppYCC420">>,
    <<"GUID_PKPixelFormat16bppYCC422", "PixelFormat16bppYCC422">>,
    <<"GUID_PKPixelFormat20bppYCC422", "PixelFormat20bppYCC422">>,
    <<"GUID_PKPixelFormat32bppYCC422", "PixelFormat32bppYCC422">>,
    <<"GUID_PKPixelFormat24bppYCC444", "PixelFormat24bppYCC444">>,
    <<"GUID_PKPixelFormat30bppYCC444", "PixelFormat30bppYCC444">>,
    <<"GUID_PKPixelFormat48bppYCC444", "PixelFormat48bppYCC444">>,
    <<"GUID_PKPixelFormat16bpp48bppYCC444FixedPoint", "PixelFormat16bpp48bppYCC444FixedPoint">>,
    <<"GUID_PKPixelFormat20bppYCC420Alpha", "PixelFormat20bppYCC420Alpha">>,
    <<"GUID_PKPixelFormat24bppYCC422Alpha", "PixelFormat24bppYCC422Alpha">>,
    <<"GUID_PKPixelFormat30bppYCC422Alpha", "PixelFormat30bppYCC422Alpha">>,
    <<"GUID_PKPixelFormat48bppYCC422Alpha", "PixelFormat48bppYCC422Alpha">>,
    <<"GUID_PKPixelFormat32bppYCC444Alpha", "PixelFormat32bppYCC444Alpha">>,
    <<"GUID_PKPixelFormat40bppYCC444Alpha", "PixelFormat40bppYCC444Alpha">>,
    <<"GUID_PKPixelFormat64bppYCC444Alpha", "PixelFormat64bppYCC444Alpha">>,
    <<"GUID_PKPixelFormat64bppYCC444AlphaFixedPoint", "PixelFormat64bppYCC444AlphaFixedPoint">>,
    <<"GUID_PKPixelFormat32bppCMYKDIRECT", "PixelFormat32bppCMYKDIRECT">>,
    <<"GUID_PKPixelFormat64bppCMYKDIRECT", "PixelFormat64bppCMYKDIRECT">>,
    <<"GUID_PKPixelFormat40bppCMYKDIRECTAlpha", "PixelFormat40bppCMYKDIRECTAlpha">>,
    <<"GUID_PKPixelFormat80bppCMYKDIRECTAlpha", "PixelFormat80bppCMYKDIRECTAlpha">> >>

GuidsInTable == {GUID_MAP[i][1] : i \in 1..Len(GUID_MAP)}
Variants == {PixelFormats[i] : i \in 1..Len(PixelFormats)}
\* identifiers the codec knows that the table does not hold, and the
\* all-zero GUID of std::mem::zeroed()
GUID_zeroed == "GUID_zeroed"
GuidsOffTable == {"GUID_PKPixelFormat48bppRGBHalf", "GUID_unlisted", GUID_zeroed}

Min(S) == CHOOSE x \in S : \A y \in S : x <= y

\* PixelFormat::guid: the first table entry whose variant is self;
\* unreachable!() when there is none
guid(self) ==
    LET hits == {i \in 1..Len(GUID_MAP) : GUID_MAP[i][2] = self}
    IN  IF hits = {} THEN "PANIC" ELSE GUID_MAP[Min(hits)][1]

\* PixelFormat::from_guid falling back to the first entry on a miss
from_guidDefault(g) ==
    LET hits == {i \in 1..Len(GUID_MAP) : GUID_MAP[i][1] = g}
    IN  IF hits = {} THEN OkPf(GUID_MAP[1][2])
        ELSE OkPf(GUID_MAP[Min(hits)][2])

\* PixelFormat::from_guid: the first table entry whose GUID equals guid
from_guid(g) ==
    LET hits == {i \in 1..Len(GUID_MAP) : GUID_MAP[i][1] = g}
    IN  IF hits = {} THEN Err("UnrecognizedPixelFormat")
        ELSE OkPf(GUID_MAP[Min(hits)][2])

(***************************************************************************)
(* PixelInfo and the enums it reads out of the codec's PKPixelInfo.  A raw *)
(* code is written by the name of its constant; "..._unlisted" is any code *)
(* the match has no arm for.                                               *)
(***************************************************************************)
\* Ok(variant) of ColorFormat, BitDepthBits or PhotometricInterpretation
OkEnum(v) == [ok |-> TRUE, err |-> "", pf |-> v, nums |-> <<>>]

\* the thread unwinding out of Result::unwrap, which is no Result at all
Panic == [ok |-> FALSE, err |-> "PANIC", pf |-> "", nums |-> <<>>]

\* Result::unwrap
unwrap(r) == IF r.ok THEN r ELSE Panic

\* the arms of ColorFormat::from_raw
ColorFormatOf ==
    [COLORFORMAT_Y_ONLY |-> "YOnly", COLORFORMAT_YUV_420 |-> "YUV420",
     COLORFORMAT_YUV_422 |-> "YUV422", COLORFORMAT_YUV_444 |-> "YUV444",
     COLORFORMAT_CMYK |-> "CMYK", COLORFORMAT_NCOMPONENT |-> "NComponent",
     COLORFORMAT_CF_RGB |-> "RGB", COLORFORMAT_CF_RGBE |-> "RGBE"]

ColorFormat_from_raw(raw) ==
    IF raw \in DOMAIN ColorFormatOf THEN OkEnum(ColorFormatOf[raw])
    ELSE Err("UnrecognizedColorFormat")

\* the arms of PhotometricInterpretation::from_raw
PhotometricInterpretationOf ==
    [PK_PI_W0 |-> "WhiteIsZero", PK_PI_B0 |-> "BlackIsZero", PK_PI_RGB |-> "RGB",
     PK_PI_RGBPalette |-> "RGBPalette",
     PK_PI_TransparencyMask |-> "TransparencyMask", PK_PI_CMYK |-> "CMYK",
     PK_PI_YCbCr |-> "YCbCr", PK_PI_CIELab |-> "CIELab", PK_PI_NCH |-> "NCH",
     PK_PI_RGBE |-> "RGBE"]

PhotometricInterpretation_from_raw(raw) ==
    IF raw \in DOMAIN PhotometricInterpretationOf
    THEN OkEnum(PhotometricInterpretationOf[raw])
    ELSE Err("UnrecognizedInterpretation")

\* the arms of BitDepthBits::from_raw
BitDepthBitsOf ==
    [BITDEPTH_BITS_BD_1 |-> "One", BITDEPTH_BITS_BD_8 |-> "Eight",
     BITDEPTH_BITS_BD_16 |-> "Sixteen", BITDEPTH_BITS_BD_16S |-> "SixteenS",
     BITDEPTH_BITS_BD_16F |-> "SixteenF", BITDEPTH_BITS_BD_32 |-> "ThirtyTwo",
     BITDEPTH_BITS_BD_32S |-> "ThirtyTwoS",
     BITDEPTH_BITS_BD_32F |-> "ThirtyTwoF", BITDEPTH_BITS_BD_5 |-> "Five",
     BITDEPTH_BITS_BD_10 |-> "Ten", BITDEPTH_BITS_BD_565 |-> "FiveSixFive",
     BITDEPTH_BITS_BD_1alt |-> "OneAlt"]

BitDepthBits_from_raw(raw) ==
    IF raw \in DOMAIN BitDepthBitsOf THEN OkEnum(BitDepthBitsOf[raw])
    ELSE Err("UnrecognizedBitDepth")

\* PKPixelInfo as std::mem::zeroed() leaves it
NoRaw == [pGUIDPixFmt |-> "null", cfColorFormat |-> "zeroed",
          bdBitDepth |-> "zeroed", uInterpretation |-> "zeroed"]

\* PixelInfo::from_guid, given the status PixelFormatLookup returned and the
\* struct it wrote over info.raw
PixelInfo_from_guid(g, st, written) ==
    LET c == call(st)
    IN  IF ~c.ok THEN [res |-> c, raw |-> NoRaw]
        ELSE [res |-> Ok, raw |-> written]

\* PixelInfo::from_format
PixelInfo_from_format(format, st, written) ==
    LET r == PixelInfo_from_guid(guid(format), st, written)
    IN  [res |-> unwrap(r.res), raw |-> r.raw]

\* PixelInfo::format
PixelInfo_format(raw) == unwrap(from_guid(raw.pGUIDPixFmt))

\* PixelInfo::color_format
PixelInfo_color_format(raw) == unwrap(ColorFormat_from_raw(raw.cfColorFormat))

\* PixelInfo::bit_depth
PixelInfo_bit_depth(raw) == unwrap(BitDepthBits_from_raw(raw.bdBitDepth))

\* PixelInfo::photometric_interpretation
PixelInfo_photometric_interpretation(raw) ==
    unwrap(PhotometricInterpretation_from_raw(raw.uInterpretation))

(***************************************************************************)
(* The byte source R: Read + Seek, modelled as a file of Len(data) bytes   *)
(* with a 64-bit position (std::fs::File, as in the crate's test).         *)
(***************************************************************************)
\* byte i (from 0) of every source is 10 + i
Data(n) == [i \in 1..n |-> 9 + i]

\* bytes left from the position to the end of the source
Remaining(r) ==
    IF IsSmall(r.pos) /\ ToNat(r.pos) <= Len(r.data)
    THEN Len(r.data) - ToNat(r.pos) ELSE 0

\* Read::read_exact(buf) with buf.len() = k: all k bytes, or an error after
\* the bytes that were left have been copied and the position moved over them
read_exact(r, k) ==
    IF k <= Remaining(r)
    THEN [ok |-> TRUE,
          rd |-> IF k = 0 THEN r
                 ELSE [r EXCEPT !.pos = FromNat(ToNat(r.pos) + k)],
          bytes |-> IF k = 0 THEN <<>>
                    ELSE SubSeq(r.data, ToNat(r.pos) + 1, ToNat(r.pos) + k)]
    ELSE [ok |-> FALSE,
          rd |-> IF Remaining(r) = 0 THEN r
                 ELSE [r EXCEPT !.pos = FromNat(Len(r.data))],
          bytes |-> IF Remaining(r) = 0 THEN <<>>
                    ELSE SubSeq(r.data, ToNat(r.pos) + 1, Len(r.data))]

\* Seek::seek(SeekFrom::Start(off)): any offset up to i64::MAX
seek(r, off) ==
    IF WLe(off, I64Max)
    THEN [ok |-> TRUE, rd |-> [r EXCEPT !.pos = off]]
    ELSE [ok |-> FALSE, rd |-> r]

\* Seek::stream_position
stream_position(r) == [ok |-> TRUE, pos |-> r.pos]

\* Seek::stream_position of a source that cannot report its position (the
\* trait lets it return an io::Error)
stream_positionErr(r) == [ok |-> FALSE, pos |-> r.pos]

(***************************************************************************)
(* InputStream's callbacks.  Each takes the byte source that get_reader    *)
(* reaches through the table's pvObj and returns the status and the new    *)
(* source; dest is the codec's buffer, slot its offset out-parameter.      *)
(***************************************************************************)
\* a buffer byte, or an out-slot, that nothing has written
Unwritten == -1
BlankDest(n) == [i \in 1..n |-> Unwritten]
BlankSlot == <<Unwritten, Unwritten, Unwritten, Unwritten>>

\* the first Len(bytes) cells of dest overwritten
Fill(dest, bytes) ==
    [i \in 1..Len(dest) |-> IF i <= Len(bytes) THEN bytes[i] ELSE dest[i]]

\* `pos as usize`: the low limbs of the position, never an error
usize_truncating(pos, w) ==
    [ok |-> TRUE,
     val |-> IF w = 2 THEN <<pos[1], pos[2], 0, 0>> ELSE pos]

\* usize::try_from(pos: u64) on a target whose usize has w limbs
usize_try_from(pos, w) ==
    IF FitsUsize(pos, w) THEN [ok |-> TRUE, val |-> pos]
    ELSE [ok |-> FALSE, val |-> pos]

\* `stride as u32`: the low 32 bits, never an error
u32_truncating(stride) == [ok |-> TRUE, val |-> <<stride[1], stride[2]>>]

\* u32::try_from(stride: usize)
u32_try_from(stride) ==
    IF FitsU32(stride) THEN [ok |-> TRUE, val |-> <<stride[1], stride[2]>>]
    ELSE [ok |-> FALSE, val |-> <<0, 0>>]

\* input_stream_close reporting that the source could not be closed
input_stream_closeFail == [ret |-> WMP_errFileIO]

input_stream_close == [ret |-> WMP_errSuccess]

\* input_stream_read reporting success whatever read_exact returned
input_stream_readIgnoreErr(r, dest, cb) ==
    LET got == read_exact(r, cb)
    IN  [ret |-> WMP_errSuccess, rd |-> got.rd, dest |-> Fill(dest, got.bytes)]

input_stream_read(r, dest, cb) ==
    LET got == read_exact(r, cb)
    IN  [ret |-> IF got.ok THEN WMP_errSuccess ELSE WMP_errFileIO,
         rd |-> got.rd,
         dest |-> Fill(dest, got.bytes)]

\* input_stream_write reporting success
input_stream_writeOk == [ret |-> WMP_errSuccess]

input_stream_write == [ret |-> WMP_errFileIO]

\* input_stream_set_pos seeking relative to the current position's low limb
input_stream_set_posRelative(r, off_pos) ==
    LET s == seek(r, IF IsSmall(off_pos) /\ IsSmall(r.pos)
                     THEN FromNat(ToNat(off_pos) + ToNat(r.pos)) ELSE off_pos)
    IN  [ret |-> IF s.ok THEN WMP_errSuccess ELSE WMP_errFileIO, rd |-> s.rd]

input_stream_set_pos(r, off_pos) ==
    LET s == seek(r, off_pos)
    IN  [ret |-> IF s.ok THEN WMP_errSuccess ELSE WMP_errFileIO, rd |-> s.rd]

\* input_stream_get_pos from the point where stream_position has returned p
input_stream_get_posOf(p, slot, w) ==
    LET out == usize_try_from(p.pos, w)
    IN  IF p.ok /\ out.ok
        THEN [ret |-> WMP_errSuccess, slot |-> out.val]
        ELSE [ret |-> WMP_errFileIO, slot |-> slot]

input_stream_get_pos(r, slot, w) ==
    input_stream_get_posOf(stream_position(r), slot, w)

(***************************************************************************)
(* State.                                                                  *)
(***************************************************************************)
VARIABLES
    probe,      \* the input and outputs of the pure function being applied
    target,     \* limbs in a usize on the build target: 2 or 4
    env,        \* the arguments the codec passes to the stream callbacks
    pc,         \* where the caller's thread is
    cur,        \* with_reader calls so far; the handle in hand is obj[cur]
    obj,        \* per with_reader call: the handle, its codec instance, its stream
    heap,       \* per address: "unused", "live" or "freed"
    rd,         \* the byte source of the handle in hand: its data and position
    cbs,        \* the last two stream callbacks of the foreign call in progress
    readFailed, \* a read callback of the foreign call in progress has failed
    closed,     \* a close callback has run on the stream whose source rd is
    lastOp      \* the public operation in progress or last completed

vars == <<probe, target, env, pc, cur, obj, heap, rd, cbs, readFailed, closed,
          lastOp>>

Calls == 1..MaxCalls
Addrs == 1..(2 * MaxCalls)
\* Box::new hands out a fresh address for every allocation
TableAddr(c) == 2 * c - 1
ReaderAddr(c) == 2 * c

\* what the environment may return or pass
Statuses == {WMP_errSuccess, 1, WMP_errFileIO}
Sizes == {<<3440, 1440>>}
Resolutions == {<<96, 96>>}
Rects == {<<0, 0, 16, 16>>, <<-1, 0, 0, -1>>}
QueryGuids == {"GUID_PKPixelFormat128bppRGBAFloat", "GUID_PKPixelFormat48bppRGB"}
                  \cup GuidsOffTable
InitPositions == {FromNat(0), U32MaxPlus1}
Strides(w) == {x \in {FromNat(16), U32Max, U32MaxPlus1, U64Max} : FitsUsize(x, w)}
\* the codec as the handle's operations see it: one-byte reads, rewinds
EnvCoarse == [sizes |-> {1}, offsets |-> {FromNat(0)}]
\* the codec as the stream adapter sees it: reads of every length up to one
\* past the source, seeks inside, at and past its end and at the edges of
\* u32, usize and i64
EnvFine == [sizes |-> 0..(MaxLen + 1),
            offsets |-> {FromNat(n) : n \in 0..(MaxLen + 1)}
                           \cup {U32Max, U32MaxPlus1, I64Max, I64MaxPlus1}]
Offsets(w) == {x \in env.offsets : FitsUsize(x, w)}

\* source is where the byte source is: "none", "boxed" in the stream
\* adapter, with the "caller", or "dropped"; srcDrops and srcReturns count
\* the times it was dropped and the times it was handed back
NoObj == [handle |-> "none", codec |-> "null", pStream |-> 0, released |-> 0,
          raw |-> 0, pvObj |-> 0, source |-> "none", srcDrops |-> 0,
          srcReturns |-> 0]
NoRect == <<0, 0, 0, 0>>
NoRd == [data |-> <<>>, pos |-> FromNat(0)]
NoOp == [api |-> "none", done |-> TRUE, invoked |-> <<>>, rets |-> <<>>,
         res |-> Ok, stride |-> FromNat(0), rect |-> NoRect,
         passedRect |-> NoRect, passedStride |-> <<0, 0>>, guid |-> "",
         cbRan |-> FALSE]
Op(api) == [NoOp EXCEPT !.api = api]

\* InputStream::new: the reader boxed, the table boxed with pvObj at the reader
InputStream_new(o, c) ==
    [o EXCEPT !.raw = TableAddr(c), !.pvObj = ReaderAddr(c), !.source = "boxed"]
HeapAfterNew(h, c) ==
    [h EXCEPT ![TableAddr(c)] = "live", ![ReaderAddr(c)] = "live"]

\* drop glue of InputStream: the table's box, then the reader's box if it
\* still holds the reader
DropStream(o) ==
    IF o.source = "boxed"
    THEN [o EXCEPT !.source = "dropped", !.srcDrops = @ + 1]
    ELSE o
HeapAfterDropStream(h, o) ==
    [a \in DOMAIN h |-> IF a \in {o.raw, o.pvObj} /\ h[a] = "live"
                        THEN "freed" ELSE h[a]]

\* InputStream::into_reader handing the caller a bitwise copy of the reader
\* and leaving the original in its box
InputStream_into_readerCopy(o) == [o EXCEPT !.srcReturns = @ + 1]

\* InputStream::into_reader: self.reader swapped for None and the reader
\* moved out of its box to the caller
InputStream_into_reader(o) ==
    [o EXCEPT !.source = "caller", !.srcReturns = @ + 1]

\* Drop for ImageDecode that never calls Release
drop_ImageDecodeForget(o) == o

\* Drop for ImageDecode: the instance's Release, which frees the instance
drop_ImageDecode(o) ==
    [o EXCEPT !.codec = "released", !.released = @ + 1]

\* ImageDecode::get_pixel_format, given what GetPixelFormat returned and
\* what the guid out-parameter holds afterwards
get_pixel_format(st, g) ==
    LET c == call(st) IN IF ~c.ok THEN c ELSE from_guid(g)

\* ImageDecode::get_size returning the out-values whatever the status
get_sizeIgnoreStatus(st, wh) == OkNums(wh)

\* ImageDecode::get_size
get_size(st, wh) ==
    LET c == call(st) IN IF ~c.ok THEN c ELSE OkNums(wh)

\* ImageDecode::get_resolution
get_resolution(st, hv) ==
    LET c == call(st) IN IF ~c.ok THEN c ELSE OkNums(hv)

\* ImageDecode::copy up to the foreign Copy call: op is the operation so
\* far; the result is the operation and whether Copy is now running
copy(op, rect, stride) ==
    LET t == u32_try_from(stride)
    IN  IF ~t.ok
        THEN [op |-> [op EXCEPT !.done = TRUE, !.stride = stride, !.rect = rect,
                                !.res = Err("TryFromIntError")],
              running |-> FALSE]
        ELSE [op |-> [op EXCEPT !.done = FALSE, !.stride = stride, !.rect = rect,
                                !.invoked = Append(@, "Copy"),
                                !.passedRect = rect, !.passedStride = t.val],
              running |-> TRUE]

Push(s, e) == IF Len(s) < 2 THEN Append(s, e) ELSE <<s[2], e>>
Cb(fn, cb, off, ret, pre, dest, slot) ==
    [fn |-> fn, cb |-> cb, off |-> off, ret |-> ret, pre |-> pre,
     dest |-> dest, slot |-> slot]
NoDest == BlankDest(MaxLen + 1)

NoProbe == [op |-> "none", code |-> 0, pf |-> "", guid |-> "", res |-> Ok,
            raw |-> NoRaw]

\* before the first with_reader
Idle(w, e) ==
    /\ target = w
    /\ env = e
    /\ pc = "idle"
    /\ cur = 0
    /\ obj = [c \in Calls |-> NoObj]
    /\ heap = [a \in Addrs |-> "unused"]
    /\ rd = NoRd
    /\ cbs = <<>>
    /\ readFailed = FALSE
    /\ closed = FALSE
    /\ lastOp = NoOp

Init == probe = NoProbe /\ \E w \in UsizeWidths : Idle(w, EnvCoarse)

(***************************************************************************)
(* ImageDecode::with_reader.                                               *)
(***************************************************************************)
\* InputStream::new, then PKImageDecode_Create_WMP; on failure `?` returns
\* and the local stream is dropped
WithReader ==
    /\ pc = "idle"
    /\ cur < MaxCalls
    /\ \E n \in 0..MaxLen, p0 \in InitPositions, st \in Statuses :
        LET c == cur + 1
            o == InputStream_new(NoObj, c)
            h == HeapAfterNew(heap, c)
            op == [Op("with_reader") EXCEPT !.invoked = <<"Create">>,
                                            !.rets = <<st>>]
        IN  /\ cur' = c
            /\ cbs' = <<>>
            /\ readFailed' = FALSE
            /\ closed' = FALSE
            /\ IF ~call(st).ok
               THEN /\ obj' = [obj EXCEPT ![c] =
                                 [DropStream(o) EXCEPT !.handle = "failed"]]
                    /\ heap' = HeapAfterDropStream(h, o)
                    /\ rd' = NoRd
                    /\ pc' = "idle"
                    /\ lastOp' = [op EXCEPT !.res = call(st)]
               ELSE /\ obj' = [obj EXCEPT ![c] =
                                 [o EXCEPT !.handle = "constructing",
                                           !.codec = "created"]]
                    /\ heap' = h
                    /\ rd' = [data |-> Data(n), pos |-> p0]
                    /\ pc' = "initialize"
                    /\ lastOp' = [op EXCEPT !.done = FALSE,
                                            !.invoked = Append(@, "Initialize")]
    /\ UNCHANGED <<probe, target, env>>

\* the instance's Initialize returns; on failure `?` returns, the local
\* stream is dropped and codec, a raw pointer, is forgotten
InitializeReturn ==
    /\ pc = "initialize"
    /\ \E st \in Statuses :
        LET o == [obj[cur] EXCEPT !.pStream = obj[cur].raw]
        IN  /\ IF ~call(st).ok
               THEN /\ obj' = [obj EXCEPT ![cur] =
                                 [DropStream(o) EXCEPT !.handle = "failed"]]
                    /\ heap' = HeapAfterDropStream(heap, o)
                    /\ rd' = NoRd
                    /\ closed' = FALSE
                    /\ pc' = "idle"
               ELSE /\ obj' = [obj EXCEPT ![cur] =
                                 [o EXCEPT !.handle = "open",
                                           !.codec = "initialized"]]
                    /\ heap' = heap
                    /\ rd' = rd
                    /\ closed' = closed
                    /\ pc' = "open"
            /\ lastOp' = [lastOp EXCEPT !.done = TRUE, !.rets = Append(@, st),
                                        !.res = call(st)]
    /\ cbs' = <<>>
    /\ readFailed' = FALSE
    /\ UNCHANGED <<probe, target, env, cur>>

(***************************************************************************)
(* Stream callbacks.  The codec calls them on the caller's thread while    *)
(* Initialize or Copy is running, through the table it was initialized     *)
(* with; get_reader follows the table's pvObj to the boxed byte source.    *)
(***************************************************************************)
InForeignCall ==
    /\ pc \in {"initialize", "copy"}
    /\ heap[obj[cur].raw] = "live"
    /\ heap[obj[cur].pvObj] = "live"

CbRan == lastOp' = [lastOp EXCEPT !.cbRan = TRUE]

CbRead ==
    /\ InForeignCall
    /\ \E cb \in env.sizes :
        LET r == input_stream_read(rd, NoDest, cb)
        IN  /\ rd' = r.rd
            /\ cbs' = Push(cbs, Cb("Read", cb, FromNat(0), r.ret, rd.pos,
                                   r.dest, BlankSlot))
            /\ readFailed' = (readFailed \/ r.ret < 0)
    /\ CbRan
    /\ UNCHANGED <<probe, target, env, closed, pc, cur, obj, heap>>

CbWrite ==
    /\ InForeignCall
    /\ \E cb \in env.sizes :
        cbs' = Push(cbs, Cb("Write", cb, FromNat(0), input_stream_write.ret,
                            rd.pos, NoDest, BlankSlot))
    /\ CbRan
    /\ UNCHANGED <<probe, target, env, closed, pc, cur, obj, heap, rd, readFailed>>

CbSetPos ==
    /\ InForeignCall
    /\ \E off \in Offsets(target) :
        LET r == input_stream_set_pos(rd, off)
        IN  /\ rd' = r.rd
            /\ cbs' = Push(cbs, Cb("SetPos", 0, off, r.ret, rd.pos, NoDest,
                                   BlankSlot))
    /\ CbRan
    /\ UNCHANGED <<probe, target, env, closed, pc, cur, obj, heap, readFailed>>

CbGetPos ==
    /\ InForeignCall
    /\ LET r == input_stream_get_pos(rd, BlankSlot, target)
       IN  cbs' = Push(cbs, Cb("GetPos", 0, FromNat(0), r.ret, rd.pos, NoDest,
                               r.slot))
    /\ CbRan
    /\ UNCHANGED <<probe, target, env, closed, pc, cur, obj, heap, rd, readFailed>>

\* get_position on a source whose stream_position fails for this call
CbGetPosIoError ==
    /\ InForeignCall
    /\ LET r == input_stream_get_posOf(stream_positionErr(rd), BlankSlot, target)
       IN  cbs' = Push(cbs, Cb("GetPosIoError", 0, FromNat(0), r.ret, rd.pos,
                               NoDest, r.slot))
    /\ CbRan
    /\ UNCHANGED <<probe, target, env, closed, pc, cur, obj, heap, rd, readFailed>>

CbClose ==
    /\ InForeignCall
    /\ cbs' = Push(cbs, Cb("Close", 0, FromNat(0), input_stream_close.ret,
                           rd.pos, NoDest, BlankSlot))
    /\ closed' = TRUE
    /\ CbRan
    /\ UNCHANGED <<probe, target, env, pc, cur, obj, heap, rd, readFailed>>

(***************************************************************************)
(* Operations on an open handle.                                           *)
(***************************************************************************)
GetPixelFormat ==
    /\ pc = "open"
    /\ \E st \in Statuses, g \in QueryGuids :
        lastOp' = [Op("get_pixel_format") EXCEPT
                      !.invoked = <<"GetPixelFormat">>, !.rets = <<st>>,
                      !.guid = g, !.res = get_pixel_format(st, g)]
    /\ UNCHANGED <<probe, target, env, closed, pc, cur, obj, heap, rd, cbs, readFailed>>

GetSize ==
    /\ pc = "open"
    /\ \E st \in Statuses, wh \in Sizes :
        lastOp' = [Op("get_size") EXCEPT
                      !.invoked = <<"GetSize">>, !.rets = <<st>>,
                      !.res = get_size(st, wh)]
    /\ UNCHANGED <<probe, target, env, closed, pc, cur, obj, heap, rd, cbs, readFailed>>

GetResolution ==
    /\ pc = "open"
    /\ \E st \in Statuses, hv \in Resolutions :
        lastOp' = [Op("get_resolution") EXCEPT
                      !.invoked = <<"GetResolution">>, !.rets = <<st>>,
                      !.res = get_resolution(st, hv)]
    /\ UNCHANGED <<probe, target, env, closed, pc, cur, obj, heap, rd, cbs, readFailed>>

\* ImageDecode::copy up to and including the call of the instance's Copy
Copy ==
    /\ pc = "open"
    /\ \E rect \in Rects, stride \in Strides(target) :
        LET r == copy(Op("copy"), rect, stride)
        IN  /\ lastOp' = r.op
            /\ pc' = IF r.running THEN "copy" ELSE "open"
    /\ UNCHANGED <<probe, target, env, closed, cur, obj, heap, rd, cbs, readFailed>>

\* ImageDecode::copy_all: get_size, Rect::new(0, 0, width, height), copy
CopyAll ==
    /\ pc = "open"
    /\ \E stride \in Strides(target), st \in Statuses, wh \in Sizes :
        LET gs == get_size(st, wh)
            op == [Op("copy_all") EXCEPT !.invoked = <<"GetSize">>,
                                         !.rets = <<st>>, !.stride = stride]
            r == copy(op, <<0, 0, wh[1], wh[2]>>, stride)
        IN  IF ~gs.ok
            THEN /\ lastOp' = [op EXCEPT !.res = gs]
                 /\ pc' = "open"
            ELSE /\ lastOp' = r.op
                 /\ pc' = IF r.running THEN "copy" ELSE "open"
    /\ UNCHANGED <<probe, target, env, closed, cur, obj, heap, rd, cbs, readFailed>>

\* the instance's Copy returns to ImageDecode::copy
CopyReturn ==
    /\ pc = "copy"
    /\ \E st \in Statuses :
        lastOp' = [lastOp EXCEPT !.done = TRUE, !.rets = Append(@, st),
                                 !.res = call(st)]
    /\ pc' = "open"
    /\ cbs' = <<>>
    /\ readFailed' = FALSE
    /\ UNCHANGED <<probe, target, env, closed, cur, obj, heap, rd>>

(***************************************************************************)
(* The end of a handle.                                                    *)
(***************************************************************************)
\* Release as Drop::drop ran it: invoked when the instance's count went up
Released(before, after, st, op) ==
    IF after.released > before.released
    THEN [op EXCEPT !.invoked = Append(@, "Release"), !.rets = Append(@, st)]
    ELSE op

\* the handle goes out of scope: Drop::drop runs Release, whose status is
\* not looked at, then the fields are dropped, the stream among them
DropHandle ==
    /\ pc = "open"
    /\ \E st \in Statuses :
        LET o == drop_ImageDecode(obj[cur])
        IN  /\ obj' = [obj EXCEPT ![cur] =
                         [DropStream(o) EXCEPT !.handle = "dropped"]]
            /\ heap' = HeapAfterDropStream(heap, o)
            /\ lastOp' = Released(obj[cur], o, st, Op("drop"))
    /\ rd' = NoRd
    /\ closed' = FALSE
    /\ pc' = "idle"
    /\ UNCHANGED <<probe, target, env, cur, cbs, readFailed>>

\* ImageDecode::into_reader, first half: self.stream swapped for None and
\* InputStream::into_reader run on it, which moves the reader out and
\* drops the InputStream
IntoReaderTake ==
    /\ pc = "open"
    /\ LET o == InputStream_into_reader(obj[cur])
       IN  /\ obj' = [obj EXCEPT ![cur] = DropStream(o)]
           /\ heap' = HeapAfterDropStream(heap, o)
    /\ lastOp' = [Op("into_reader") EXCEPT !.done = FALSE]
    /\ pc' = "into_reader_drop"
    /\ UNCHANGED <<probe, target, env, closed, cur, rd, cbs, readFailed>>

\* ImageDecode::into_reader, second half: self goes out of scope with its
\* stream None, Drop::drop runs Release, and the reader is returned
IntoReaderDrop ==
    /\ pc = "into_reader_drop"
    /\ \E st \in Statuses :
        LET o == drop_ImageDecode(obj[cur])
        IN  /\ obj' = [obj EXCEPT ![cur] = [o EXCEPT !.handle = "reclaimed"]]
            /\ lastOp' = Released(obj[cur], o, st, [lastOp EXCEPT !.done = TRUE])
    /\ pc' = "idle"
    /\ UNCHANGED <<probe, target, env, closed, cur, heap, rd, cbs, readFailed>>

Next ==
    \/ WithReader
    \/ InitializeReturn
    \/ CbRead
    \/ CbWrite
    \/ CbSetPos
    \/ CbGetPos
    \/ CbClose
    \/ GetPixelFormat
    \/ GetSize
    \/ GetResolution
    \/ Copy
    \/ CopyAll
    \/ CopyReturn
    \/ DropHandle
    \/ IntoReaderTake
    \/ IntoReaderDrop

Spec == Init /\ [][Next]_vars

(***************************************************************************)
(* The stream adapter on its own: a stream built by InputStream::new and   *)
(* handed to Initialize, and the codec calling back into it.               *)
(***************************************************************************)
InitStream ==
    /\ probe = NoProbe
    /\ \E w \in UsizeWidths, n \in 0..MaxLen, p0 \in InitPositions :
        /\ target = w
        /\ env = EnvFine
        /\ pc = "initialize"
        /\ cur = 1
        /\ obj = [c \in Calls |->
                    IF c = 1
                    THEN [InputStream_new(NoObj, 1) EXCEPT
                             !.handle = "constructing", !.codec = "created"]
                    ELSE NoObj]
        /\ heap = HeapAfterNew([a \in Addrs |-> "unused"], 1)
        /\ rd = [data |-> Data(n), pos |-> p0]
        /\ cbs = <<>>
        /\ readFailed = FALSE
        /\ closed = FALSE
        /\ lastOp = [Op("with_reader") EXCEPT
                        !.done = FALSE, !.invoked = <<"Create", "Initialize">>,
                        !.rets = <<WMP_errSuccess>>]

NextStream ==
    \/ CbRead
    \/ CbWrite
    \/ CbSetPos
    \/ CbGetPos
    \/ CbGetPosIoError
    \/ CbClose

SpecStream == InitStream /\ [][NextStream]_vars

(***************************************************************************)
(* The pure functions applied to inputs drawn at the start.                *)
(***************************************************************************)
lifeVars == <<target, env, pc, cur, obj, heap, rd, cbs, readFailed, closed,
              lastOp>>

Codes == (-MaxCode..MaxCode) \cup {-2147483647, 2147483647}

InitCall ==
    /\ \E e \in Codes : probe = [NoProbe EXCEPT !.op = "start", !.code = e]
    /\ Idle(4, EnvCoarse)

ApplyCall ==
    /\ probe.op = "start"
    /\ probe' = [probe EXCEPT !.op = "call", !.res = call(probe.code)]
    /\ UNCHANGED lifeVars

NextCall == ApplyCall

SpecCall == InitCall /\ [][NextCall]_vars

InitFormat ==
    /\ \E v \in Variants : probe = [NoProbe EXCEPT !.op = "start", !.pf = v]
    /\ Idle(4, EnvCoarse)

ApplyGuid ==
    /\ probe.op = "start"
    /\ probe' = [probe EXCEPT !.op = "guid", !.guid = guid(probe.pf)]
    /\ UNCHANGED lifeVars

ApplyFromGuid ==
    /\ probe.op = "guid"
    /\ probe.guid # "PANIC"
    /\ probe' = [probe EXCEPT !.op = "from_guid", !.res = from_guid(probe.guid)]
    /\ UNCHANGED lifeVars

NextFormat ==
    \/ ApplyGuid
    \/ ApplyFromGuid

SpecFormat == InitFormat /\ [][NextFormat]_vars

(***************************************************************************)
(* PixelInfo: built for a format drawn at the start, then read.            *)
(***************************************************************************)
\* what PixelFormatLookup may write for the GUID g it was asked about: its
\* own table's entry for g, with codes the wrapper lists or does not
LookupWrites(g) ==
    [pGUIDPixFmt : {g},
     cfColorFormat : {"COLORFORMAT_CF_RGB", "COLORFORMAT_unlisted"},
     bdBitDepth : {"BITDEPTH_BITS_BD_8", "BITDEPTH_BITS_unlisted"},
     uInterpretation : {"PK_PI_RGB", "PK_PI_unlisted"}]

InitInfo ==
    /\ \E v \in Variants : probe = [NoProbe EXCEPT !.op = "start", !.pf = v]
    /\ Idle(4, EnvCoarse)

InfoFromFormat ==
    /\ probe.op = "start"
    /\ \E st \in Statuses, written \in LookupWrites(guid(probe.pf)) :
        LET r == PixelInfo_from_format(probe.pf, st, written)
        IN  probe' = [probe EXCEPT !.op = "from_format", !.code = st,
                                   !.res = r.res, !.raw = r.raw]
    /\ UNCHANGED lifeVars

\* an accessor needs the PixelInfo that from_format returned
InfoBuilt == probe.op = "from_format" /\ probe.res.ok

InfoFormat ==
    /\ InfoBuilt
    /\ probe' = [probe EXCEPT !.op = "format",
                              !.res = PixelInfo_format(probe.raw)]
    /\ UNCHANGED lifeVars

InfoColorFormat ==
    /\ InfoBuilt
    /\ probe' = [probe EXCEPT !.op = "color_format",
                              !.res = PixelInfo_color_format(probe.raw)]
    /\ UNCHANGED lifeVars

InfoBitDepth ==
    /\ InfoBuilt
    /\ probe' = [probe EXCEPT !.op = "bit_depth",
                              !.res = PixelInfo_bit_depth(probe.raw)]
    /\ UNCHANGED lifeVars

InfoPhotometricInterpretation ==
    /\ InfoBuilt
    /\ probe' = [probe EXCEPT
                    !.op = "photometric_interpretation",
                    !.res = PixelInfo_photometric_interpretation(probe.raw)]
    /\ UNCHANGED lifeVars

NextInfo ==
    \/ InfoFromFormat
    \/ InfoFormat
    \/ InfoColorFormat
    \/ InfoBitDepth
    \/ InfoPhotometricInterpretation

SpecInfo == InitInfo /\ [][NextInfo]_vars

(***************************************************************************)
(* Properties.                                                             *)
(***************************************************************************)
Last == cbs[Len(cbs)]

\* C1: when with_reader has returned an error, whichever step failed, no
\* codec instance of that call is left allocated and unreleased and neither
\* box of its stream adapter is left alive.
C1_NoLeakOnFailedOpen ==
    \A c \in Calls :
        obj[c].handle = "failed" =>
            /\ obj[c].codec \in {"null", "released"}
            /\ heap[obj[c].raw] # "live"
            /\ heap[obj[c].pvObj] # "live"

\* C2: Release has been invoked exactly once for every handle whose life
\* has ended, by drop or by into_reader, not at all for a handle still
\* alive, and never for a with_reader call that returned an error.
C2_ReleaseExactlyOnce ==
    \A c \in Calls :
        /\ obj[c].handle \in {"dropped", "reclaimed"} => obj[c].released = 1
        /\ obj[c].handle \in {"none", "constructing", "open", "failed"} =>
               obj[c].released = 0
        /\ (lastOp.api = "with_reader" /\ lastOp.done /\ ~lastOp.res.ok) =>
               \A i \in 1..Len(lastOp.invoked) : lastOp.invoked[i] # "Release"

\* one handle ended by drop and another by into_reader, each released once
C2_Witness ==
    \E c, d \in Calls :
        /\ obj[c].handle = "dropped" /\ obj[c].released = 1
        /\ obj[d].handle = "reclaimed" /\ obj[d].released = 1

\* C3: while a codec instance is initialized against a callback table and
\* not yet released, the table is still allocated at the address the
\* instance holds and its pvObj still points at the live box that holds
\* the byte source.
C3_TableValidWhileReferenced ==
    \A c \in Calls :
        obj[c].codec = "initialized" =>
            /\ obj[c].pStream = obj[c].raw
            /\ heap[obj[c].pStream] = "live"
            /\ heap[obj[c].pvObj] = "live"
            /\ obj[c].source = "boxed"

\* C4: for every PixelFormat variant v, from_guid(v.guid()) is Ok(v).
C4_GuidRoundTrip ==
    probe.op = "from_guid" => probe.res = OkPf(probe.pf)

\* C5 as claimed: copy_all with a stride that does not fit a u32 returns the
\* numeric-conversion error having invoked no foreign entry point at all.
C5_NoForeignCallBeforeStrideError ==
    (lastOp.api = "copy_all" /\ lastOp.done /\ ~FitsU32(lastOp.stride)) =>
        /\ lastOp.invoked = <<>>
        /\ lastOp.res = Err("TryFromIntError")

\* C5 as amended: copy_all with a stride that does not fit a u32 invokes
\* GetSize once and nothing else (never Copy, no stream callback); it
\* returns the translated status when GetSize fails and the numeric-
\* conversion error otherwise.
C5_OnlyGetSizeBeforeStrideError ==
    (lastOp.api = "copy_all" /\ lastOp.done /\ ~FitsU32(lastOp.stride)) =>
        /\ lastOp.invoked = <<"GetSize">>
        /\ Len(lastOp.rets) = 1
        /\ ~lastOp.cbRan
        /\ lastOp.rets[1] >= 0 => lastOp.res = Err("TryFromIntError")
        /\ lastOp.rets[1] < 0 =>
               (~lastOp.res.ok /\ lastOp.res.err # "TryFromIntError")
        /\ lastOp.rets[1] = WMP_errFileIO => lastOp.res = Err("FileIO")

\* copy_all given 2^32 as the stride has returned the conversion error
C5_Witness ==
    /\ lastOp.api = "copy_all"
    /\ lastOp.done
    /\ lastOp.stride = U32MaxPlus1
    /\ lastOp.res = Err("TryFromIntError")

\* C6: copy with a stride above 2^32-1 returns the numeric-conversion error
\* with no foreign call and no stream callback; with a stride of at most
\* 2^32-1 it invokes Copy exactly once with the caller's rect and that
\* stride, and returns Ok iff the status is nonnegative, else the
\* translated error.
C6_CopyStrideContract ==
    lastOp.api = "copy" =>
        IF WLe(lastOp.stride, U32Max)
        THEN /\ lastOp.invoked = <<"Copy">>
             /\ lastOp.passedRect = lastOp.rect
             /\ W(lastOp.passedStride[1], lastOp.passedStride[2], 0, 0)
                    = lastOp.stride
             /\ lastOp.done =>
                    /\ Len(lastOp.rets) = 1
                    /\ lastOp.res.ok <=> lastOp.rets[1] >= 0
                    /\ lastOp.rets[1] = WMP_errFileIO =>
                           lastOp.res = Err("FileIO")
        ELSE /\ lastOp.done
             /\ lastOp.invoked = <<>>
             /\ lastOp.rets = <<>>
             /\ ~lastOp.cbRan
             /\ lastOp.res = Err("TryFromIntError")

\* copy given 2^32 as the stride has returned the conversion error
C6_Witness ==
    /\ lastOp.api = "copy"
    /\ lastOp.done
    /\ lastOp.stride = U32MaxPlus1
    /\ lastOp.res = Err("TryFromIntError")

\* C7: a read callback for k bytes at position p of a source of N bytes,
\* with k no more than the bytes that remain, returns success, puts source
\* bytes p..p+k-1 in the first k cells of the destination and no other, and
\* leaves the position at p+k; a request for more returns the file-I/O
\* code and leaves the position at p or at the end of the source.  This
\* holds after earlier failed reads too.
C7_ExactRead ==
    (Len(cbs) > 0 /\ Last.fn = "Read") =>
        LET N == Len(rd.data)
            p == Last.pre
            k == Last.cb
            inside == p[2] = 0 /\ p[3] = 0 /\ p[4] = 0 /\ p[1] <= N
            left == IF inside THEN N - p[1] ELSE 0
        IN  IF k <= left
            THEN /\ Last.ret = WMP_errSuccess
                 /\ \A i \in 1..Len(Last.dest) :
                        Last.dest[i] = IF i <= k THEN rd.data[p[1] + i]
                                       ELSE Unwritten
                 /\ rd.pos = IF k = 0 THEN p ELSE <<p[1] + k, 0, 0, 0>>
            ELSE /\ Last.ret = WMP_errFileIO
                 /\ rd.pos \in {p, <<N, 0, 0, 0>>}

\* a read failed, the codec then set the position and read in range
C7_Witness ==
    /\ Len(cbs) = 2
    /\ readFailed
    /\ cbs[1].fn = "SetPos"
    /\ cbs[2].fn = "Read"
    /\ cbs[2].cb = MaxLen
    /\ cbs[2].ret = WMP_errSuccess

\* C8: set_position(p) followed at once by get_position, for p no greater
\* than i64::MAX, returns success twice and reports p.
C8_SetPosThenGetPos ==
    (/\ Len(cbs) = 2
     /\ cbs[1].fn = "SetPos"
     /\ cbs[2].fn = "GetPos"
     /\ WLe(cbs[1].off, I64Max)) =>
        /\ cbs[1].ret = WMP_errSuccess
        /\ cbs[2].ret = WMP_errSuccess
        /\ cbs[2].slot = cbs[1].off

\* after a failed read, set_position(1) from another position and then
\* get_position
C8_Witness ==
    /\ Len(cbs) = 2
    /\ readFailed
    /\ cbs[1].fn = "SetPos"
    /\ cbs[1].off = FromNat(1)
    /\ cbs[1].pre # FromNat(0)
    /\ cbs[2].fn = "GetPos"
    /\ cbs[2].slot = FromNat(1)

\* the reference table of the status translator: each known failure code
\* by the error kind that stands for it
KindCode ==
    [Fail |-> -1, NotYetImplemented |-> -2, AbstractMethod |-> -3,
     OutOfMemory |-> -101, FileIO |-> -102, BufferOverflow |-> -103,
     InvalidParameter |-> -104, InvalidArgument |-> -105,
     UnsupportedFormat |-> -106, IncorrectCodecVersion |-> -107,
     IndexNotFound |-> -108, OutOfSequence |-> -109, NotInitialized |-> -110,
     MustBeMultipleOf16LinesUntilLastCall |-> -111,
     PlanarAlphaBandedEncRequiresTempFile |-> -112,
     AlphaModeCannotBeTranscoded |-> -113, IncorrectCodecSubVersion |-> -114]
KnownCodes == {KindCode[k] : k \in DOMAIN KindCode}

\* C9: call gives Ok for every code >= 0, for each of the 17 known
\* negative codes the one error kind that stands for it (so distinct codes
\* give distinct kinds), and UnknownError for every other negative code;
\* it yields a Result for every input.
C9_CallMatchesTable ==
    /\ Cardinality(KnownCodes) = 17
    /\ probe.op = "call" =>
        LET e == probe.code
            r == probe.res
        IN  /\ e >= 0 => r = Ok
            /\ e < 0 => (~r.ok /\ r.err \in DOMAIN KindCode \cup {"UnknownError"})
            /\ e \in KnownCodes =>
                   (r.err \in DOMAIN KindCode /\ KindCode[r.err] = e)
            /\ (e < 0 /\ e \notin KnownCodes) => r.err = "UnknownError"

\* call applied to the last code of the table
C9_Witness ==
    /\ probe.op = "call"
    /\ probe.code = -114
    /\ probe.res = Err("IncorrectCodecSubVersion")

\* C10: get_pixel_format returns UnrecognizedPixelFormat when the foreign
\* query succeeds with a GUID the table does not hold, the translated
\* status error, which is not UnrecognizedPixelFormat, when the query
\* fails, and a Result in every case.
C10_UnrecognizedFormat ==
    lastOp.api = "get_pixel_format" =>
        LET st == lastOp.rets[1]
            g == lastOp.guid
        IN  /\ (st >= 0 /\ g \notin GuidsInTable) =>
                   lastOp.res = Err("UnrecognizedPixelFormat")
            /\ (st >= 0 /\ g \in GuidsInTable) =>
                   (lastOp.res.ok /\ lastOp.res.pf \in Variants)
            /\ st < 0 =>
                   (~lastOp.res.ok /\ lastOp.res.err # "UnrecognizedPixelFormat")
            /\ st = WMP_errFileIO => lastOp.res = Err("FileIO")

\* the codec reported 48bppRGBHalf, which the table does not hold
C10_Witness ==
    /\ lastOp.api = "get_pixel_format"
    /\ lastOp.rets = <<WMP_errSuccess>>
    /\ lastOp.guid = "GUID_PKPixelFormat48bppRGBHalf"
    /\ lastOp.res = Err("UnrecognizedPixelFormat")

\* C11: on every path the byte source of a with_reader call has one owner
\* and is freed at most once: it sits in the stream adapter while the handle
\* lives, and at the end it has either been handed back by into_reader or
\* been dropped (with the handle, or with the stream of a failed open),
\* never both and never neither.  What into_reader hands back is the source
\* that was passed in: no step changes its content, and only a stream
\* callback moves its position.
C11_SourceOneOwner ==
    /\ [](\A c \in Calls :
            LET o == obj[c]
                taken == c = cur /\ pc = "into_reader_drop"
            IN  /\ o.srcDrops + o.srcReturns <= 1
                /\ o.handle = "none" => o.source = "none"
                /\ (o.handle \in {"constructing", "open"} /\ ~taken) =>
                       (o.source = "boxed" /\ o.srcDrops + o.srcReturns = 0)
                /\ (o.handle = "open" /\ taken) =>
                       (o.source = "caller" /\ o.srcReturns = 1)
                /\ o.handle \in {"failed", "dropped"} =>
                       (o.source = "dropped" /\ o.srcDrops = 1)
                /\ o.handle = "reclaimed" =>
                       (o.source = "caller" /\ o.srcReturns = 1))
    /\ [][(/\ cur' = cur
           /\ cur > 0
           /\ obj[cur].source \in {"boxed", "caller"}
           /\ obj'[cur].source \in {"boxed", "caller"}) =>
              /\ rd'.data = rd.data
              /\ ~(pc \in {"initialize", "copy"} /\ pc' = pc) => rd' = rd]_vars

\* into_reader has handed back a two-byte source that a read callback left
\* at position 1, and an earlier handle was dropped with its source
C11_Witness ==
    /\ cur > 1
    /\ obj[cur].handle = "reclaimed"
    /\ obj[cur].srcReturns = 1
    /\ obj[cur].srcDrops = 0
    /\ rd = [data |-> Data(MaxLen), pos |-> FromNat(1)]
    /\ obj[1].handle = "dropped"
    /\ obj[1].srcDrops = 1

\* C12: building a PixelInfo for a format and reading its format, color
\* format, bit depth and photometric interpretation never panic: when the
\* lookup fails, or has written a code the wrapper does not list, the
\* operation yields an error value.
C12_ErrorNotPanic ==
    probe.op \in {"from_format", "format", "color_format", "bit_depth",
                  "photometric_interpretation"} =>
        probe.res # Panic

\* C13: no status of a foreign call is discarded: when an operation of the
\* handle has completed, every negative status a foreign call returned
\* during it (Create, Initialize, GetPixelFormat, GetSize, GetResolution,
\* Copy, Release) is the operation's result, as the error the status
\* translator gives for it.
C13_NoStatusDiscarded ==
    lastOp.done =>
        \A i \in 1..Len(lastOp.rets) :
            lastOp.rets[i] < 0 => lastOp.res = call(lastOp.rets[i])

\* C14 as claimed, the part that fails: get_size, get_resolution and
\* get_pixel_format return the value the codec wrote whenever the status is
\* nonnegative.
C14_ValueWheneverStatusOk ==
    (/\ lastOp.api \in {"get_size", "get_resolution", "get_pixel_format"}
     /\ lastOp.rets[1] >= 0) =>
        lastOp.res.ok

\* C14 as amended: get_size, get_resolution and get_pixel_format each make
\* exactly one foreign query and run no stream callback; on a negative
\* status they return the translated error; on a nonnegative one get_size
\* and get_resolution return the pair the codec wrote, and get_pixel_format
\* returns the variant GUID_MAP pairs with the GUID the codec wrote, or
\* UnrecognizedPixelFormat when GUID_MAP does not hold it.  None of them
\* changes the handle, its codec instance, its stream adapter, the heap or
\* the byte source, so they can be called any number of times.
C14_QueriesPassThrough ==
    /\ [](lastOp.api \in {"get_size", "get_resolution", "get_pixel_format"} =>
            LET st == lastOp.rets[1]
                r == lastOp.res
            IN  /\ lastOp.done
                /\ Len(lastOp.rets) = 1
                /\ ~lastOp.cbRan
                /\ lastOp.invoked =
                       <<CASE lastOp.api = "get_size" -> "GetSize"
                           [] lastOp.api = "get_resolution" -> "GetResolution"
                           [] OTHER -> "GetPixelFormat">>
                /\ st < 0 => r = call(st)
                /\ (st >= 0 /\ lastOp.api = "get_size") =>
                       (r.ok /\ r.nums \in Sizes)
                /\ (st >= 0 /\ lastOp.api = "get_resolution") =>
                       (r.ok /\ r.nums \in Resolutions)
                /\ (st >= 0 /\ lastOp.api = "get_pixel_format") =>
                       IF lastOp.guid \in GuidsInTable
                       THEN /\ r.ok
                            /\ \E i \in 1..Len(GUID_MAP) :
                                   GUID_MAP[i] = <<lastOp.guid, r.pf>>
                       ELSE r = Err("UnrecognizedPixelFormat"))
    /\ [][(/\ lastOp' # lastOp
           /\ lastOp'.api \in {"get_size", "get_resolution", "get_pixel_format"})
              => (/\ pc = "open"
                  /\ UNCHANGED <<pc, cur, obj, heap, rd, closed>>)]_vars

\* get_resolution has returned what the codec wrote, on a handle whose
\* stream has seen callbacks and which is still open
C14_Witness ==
    /\ lastOp.api = "get_resolution"
    /\ lastOp.rets = <<1>>
    /\ lastOp.res = OkNums(<<96, 96>>)
    /\ pc = "open"
    /\ obj[cur].handle = "open"
    /\ closed

\* C15: the get_position callback returns success with the source's exact
\* position in the slot when the source reports a position that fits the
\* target's usize; when the position does not fit, or the source cannot
\* report one, it returns the file-I/O code and leaves the slot unwritten.
\* It never moves the source.
C15_GetPosExactOrFileIO ==
    (Len(cbs) > 0 /\ Last.fn \in {"GetPos", "GetPosIoError"}) =>
        LET p == Last.pre
            fits == target = 4 \/ (p[3] = 0 /\ p[4] = 0)
        IN  /\ rd.pos = p
            /\ IF Last.fn = "GetPos" /\ fits
               THEN Last.ret = WMP_errSuccess /\ Last.slot = p
               ELSE Last.ret = WMP_errFileIO /\ Last.slot = BlankSlot

\* on a 32-bit target the source stood at 2^32 and get_position failed
C15_Witness ==
    /\ target = 2
    /\ Len(cbs) > 0
    /\ Last.fn = "GetPos"
    /\ Last.pre = U32MaxPlus1
    /\ Last.ret = WMP_errFileIO
    /\ Last.slot = BlankSlot

\* C16: the write callback returns the file-I/O code whatever length it is
\* given, zero included, and leaves the byte source as it was: same content,
\* same position, still boxed in the stream adapter.
C16_WriteRefused ==
    /\ []((Len(cbs) > 0 /\ Last.fn = "Write") =>
            /\ Last.ret = WMP_errFileIO
            /\ rd.pos = Last.pre
            /\ Last.dest = NoDest
            /\ obj[cur].source = "boxed")
    /\ [][(/\ cbs' # cbs
           /\ Len(cbs') > 0
           /\ cbs'[Len(cbs')].fn = "Write") =>
              UNCHANGED <<rd, obj, heap, pc>>]_vars

\* a write of length 0 was refused on a source standing at 1 of 2 bytes
C16_Witness ==
    /\ Len(cbs) > 0
    /\ Last.fn = "Write"
    /\ Last.cb = 0
    /\ Last.ret = WMP_errFileIO
    /\ rd = [data |-> Data(MaxLen), pos |-> FromNat(1)]

\* C17: the close callback returns success and does nothing to the byte
\* source: the step changes neither the source nor the handle nor the heap;
\* after any number of close callbacks the source is still boxed in the
\* live stream adapter, a read or set_position that follows a close behaves
\* as on a source never closed, and into_reader still hands the source back.
C17_CloseLeavesSource ==
    /\ []((Len(cbs) > 0 /\ Last.fn = "Close") =>
            /\ Last.ret = WMP_errSuccess
            /\ rd.pos = Last.pre)
    /\ []((closed /\ pc \in {"initialize", "open", "copy"}) =>
            /\ obj[cur].source = "boxed"
            /\ heap[obj[cur].pvObj] = "live"
            /\ obj[cur].srcDrops = 0)
    /\ []((Len(cbs) = 2 /\ cbs[1].fn = "Close" /\ cbs[2].fn = "Read") =>
            LET p == cbs[2].pre
                k == cbs[2].cb
            IN  (p[2] = 0 /\ p[3] = 0 /\ p[4] = 0 /\ p[1] + k <= Len(rd.data)) =>
                    /\ cbs[2].ret = WMP_errSuccess
                    /\ rd.pos = <<p[1] + k, 0, 0, 0>>
                    /\ \A i \in 1..k : cbs[2].dest[i] = rd.data[p[1] + i])
    /\ []((Len(cbs) = 2 /\ cbs[1].fn = "Close" /\ cbs[2].fn = "SetPos"
              /\ WLe(cbs[2].off, I64Max)) =>
            /\ cbs[2].ret = WMP_errSuccess
            /\ rd.pos = cbs[2].off)
    /\ []((closed /\ obj[cur].handle = "reclaimed") =>
            /\ obj[cur].source = "caller"
            /\ obj[cur].srcReturns = 1
            /\ obj[cur].srcDrops = 0)
    /\ [][(/\ cbs' # cbs
           /\ Len(cbs') > 0
           /\ cbs'[Len(cbs')].fn = "Close") =>
              UNCHANGED <<rd, obj, heap, pc>>]_vars

\* the codec closed the stream, and into_reader then handed back the
\* two-byte source
C17_Witness ==
    /\ closed
    /\ obj[cur].handle = "reclaimed"
    /\ obj[cur].source = "caller"
    /\ rd.data = Data(MaxLen)

\* C18: for each codec instance the foreign calls come in the order Create,
\* Initialize, then GetPixelFormat / GetSize / GetResolution / Copy in any
\* number, then Release.  with_reader invokes Create once and Initialize
\* once, and Initialize only when Create succeeded; a query or Copy is
\* invoked only on an instance whose Initialize succeeded and which is not
\* released; a handle that has ended has been released; and once an
\* instance is released no foreign call is made on it, no stream callback
\* runs for it and nothing about it changes.
C18_ForeignCallOrder ==
    /\ [](LET Has(f) == \E i \in 1..Len(lastOp.invoked) : lastOp.invoked[i] = f
              o == obj[cur]
          IN  /\ lastOp.api = "with_reader" =>
                     /\ lastOp.invoked \in {<<"Create">>, <<"Create", "Initialize">>}
                     /\ lastOp.rets[1] < 0 => lastOp.invoked = <<"Create">>
                     /\ lastOp.invoked = <<"Create">> =>
                            (o.codec = "null" /\ o.handle = "failed")
              /\ lastOp.api # "with_reader" =>
                     (~Has("Create") /\ ~Has("Initialize"))
              /\ lastOp.api \in {"get_pixel_format", "get_size", "get_resolution",
                                 "copy", "copy_all"} =>
                     /\ ~Has("Release")
                     /\ o.codec = "initialized"
                     /\ o.handle = "open"
                     /\ o.released = 0
              /\ lastOp.api \in {"drop", "into_reader"} =>
                     /\ lastOp.invoked \in {<<>>, <<"Release">>}
                     /\ lastOp.done <=> lastOp.invoked = <<"Release">>
              /\ \A c \in Calls :
                     /\ obj[c].codec = "initialized" => obj[c].handle = "open"
                     /\ obj[c].handle \in {"dropped", "reclaimed"} =>
                            obj[c].codec = "released"
                     /\ obj[c].codec = "released" => obj[c].released = 1)
    /\ [][/\ (cbs' # cbs /\ Len(cbs') > 0) =>
               /\ pc \in {"initialize", "copy"}
               /\ obj[cur].codec \in {"created", "initialized"}
               /\ obj[cur].released = 0
          /\ (lastOp' # lastOp /\ Len(lastOp'.invoked) > 0) =>
               obj[cur'].codec # "released"
          /\ \A c \in Calls :
               obj[c].codec = "released" => obj'[c] = obj[c]]_vars

\* a first with_reader failed in Create, so without Initialize; a second
\* instance was created, initialized, called back into, and released by
\* into_reader
C18_Witness ==
    /\ cur = 2
    /\ obj[1].handle = "failed"
    /\ obj[1].codec = "null"
    /\ obj[2].codec = "released"
    /\ lastOp.api = "into_reader"
    /\ lastOp.invoked = <<"Release">>
    /\ closed
====
